---- MODULE Spec2Model ----
(***************************************************************************)
(* Webfish (src/webfish.py): a Flask endpoint POST /analyze that expands a *)
(* PGN into the positions of its main line, asks one process-wide          *)
(* Stockfish session for the top 3 moves of each position and saves the    *)
(* result as a file.                                                       *)
(*                                                                         *)
(* The server of app.run (line 152) handles requests on threads, so the    *)
(* handler analyze_pgn is modelled as one process per worker thread, with  *)
(* one step per call into the shared engine session.                       *)
(***************************************************************************)
EXTENDS Integers, Sequences, FiniteSets

VARIABLES
    stockfish,   \* the module global `stockfish`: "None" or "Engine"
    engine,      \* the engine session: the depth and the position it holds
    pc,          \* where each worker is in analyze_pgn
    req,         \* the request body each worker is handling
    depth,       \* local `depth` of analyze_pgn
    fens,        \* local `fens`
    index,       \* local `index` of the loop (0-based count of positions done)
    positions,   \* local `positions`
    response,    \* the response each worker returned last
    logged,      \* the exception texts app.logger.error wrote for the request
    calls,       \* the calls the request made to the expander and the engine
    storage,     \* the files of ANALYSES_FOLDER
    next_uuid,   \* uuid.uuid4(): a name no earlier call returned
    nreq,        \* number of requests received so far
    x_pc,        \* expander harness: "input" or "output"
    x_pgn,       \* expander harness: the pgn given to pgn_to_fen_list
    x_out,       \* expander harness: what pgn_to_fen_list returned
    config,      \* the file stockfish_config.json as the process finds it
    engine_params, \* the module global `engine_params`
    main_pc      \* where the module's top-level code is

vars == <<stockfish, engine, pc, req, depth, fens, index, positions, response,
          logged, calls, storage, next_uuid, nreq, x_pc, x_pgn, x_out,
          config, engine_params, main_pc>>

server_vars == <<stockfish, engine, pc, req, depth, fens, index, positions,
                 response, logged, calls, storage, next_uuid, nreq>>

harness_vars == <<x_pc, x_pgn, x_out>>

startup_vars == <<config, engine_params, main_pc>>

----------------------------------------------------------------------------
(* Bounds and program constants *)

\* Requests the server receives in one run.
MaxRequests == 2

\* Tokens in the movetext of a PGN given to the expander harness.
MaxPgnLen == 3

\* Candidate moves the engine stub ranks in the starting position.
StartMoves == 4

\* Values a parameter of the configuration file takes.
MaxParamValue == 2

\* webfish.py line 17
MAX_DEPTH == 15

\* The argument of get_top_moves, line 123
TOP_N == 3

\* The worker threads of the server.
Workers == {"w1", "w2"}

Min(a, b) == IF a < b THEN a ELSE b

----------------------------------------------------------------------------
(* JSON values of a request body.  Python's bool is a subclass of int:     *)
(* True behaves as 1 and False as 0 in isinstance and in comparisons.      *)

JAbsent == [t |-> "absent", v |-> 0]
JNull == [t |-> "null", v |-> 0]
JStr == [t |-> "str", v |-> 0]
JFloat == [t |-> "float", v |-> 1]
JInt(n) == [t |-> "int", v |-> n]
JTrue == [t |-> "bool", v |-> 1]
JFalse == [t |-> "bool", v |-> 0]

\* isinstance(x, int)
IsInstanceInt(x) == x.t \in {"int", "bool"}

----------------------------------------------------------------------------
(* PGN text.  The movetext is a sequence of tokens: a main-line move, a    *)
(* one-move side variation "( m )" of the move before it, a token that is  *)
(* no legal move, or a token that is no move at all (a comment, a result   *)
(* marker).                                                                *)

Moves == {"a", "b"}

MoveTok(m) == [k |-> "move", m |-> m]
AltTok(m) == [k |-> "alt", m |-> m]
BadTok == [k |-> "bad", m |-> "a"]
NoteTok == [k |-> "note", m |-> "a"]

Tokens == {MoveTok(m) : m \in Moves} \cup {AltTok("b"), BadTok, NoteTok}

\* The value of the "pgn" field: absent, null, a number, or a string.
PgnAbsent == [t |-> "absent", text |-> <<>>]
PgnNull == [t |-> "null", text |-> <<>>]
PgnNum == [t |-> "num", text |-> <<>>]
PgnStr(s) == [t |-> "str", text |-> s]

SeqUpTo(S, n) == UNION {[1..k -> S] : k \in 0..n}

----------------------------------------------------------------------------
(* chess.pgn.read_game (line 54).  A game is the tree of its moves; only   *)
(* main-line nodes have children here, so the tree is kept as `line`: for  *)
(* each ply the moves recorded there, the main move first.  A node is the  *)
(* sequence of moves that leads to it from the root.                       *)

NoGame == [isNone |-> TRUE, line |-> <<>>]

\* Add move m as one more variation of the parent of the last main node.
AddAlt(line, m) ==
    [line EXCEPT ![Len(line)] = Append(line[Len(line)], m)]

\* The parser reads tokens from the i-th on.  A token that is no legal move
\* (or a variation with no move before it) is reported to the visitor and
\* the rest of the movetext is skipped; a comment or result adds no node.
RECURSIVE ParseFrom(_, _, _)
ParseFrom(text, i, line) ==
    IF i > Len(text) THEN line
    ELSE LET tok == text[i] IN
         CASE tok.k = "move" -> ParseFrom(text, i + 1, Append(line, <<tok.m>>))
           [] tok.k = "alt" ->
                IF line = <<>> THEN line
                ELSE ParseFrom(text, i + 1, AddAlt(line, tok.m))
           [] tok.k = "note" -> ParseFrom(text, i + 1, line)
           [] OTHER -> line

\* read_game returns None when the text holds nothing to read.
ReadGame(text) ==
    IF Len(text) = 0 THEN NoGame
    ELSE [isNone |-> FALSE, line |-> ParseFrom(text, 1, <<>>)]

\* The moves of the main line of a game.
MainLine(game) == [i \in 1..Len(game.line) |-> game.line[i][1]]

\* node.variations: the children of a node (their moves), main child first.
Variations(game, node) ==
    IF /\ Len(node) < Len(game.line)
       /\ node = SubSeq(MainLine(game), 1, Len(node))
    THEN game.line[Len(node) + 1]
    ELSE <<>>

\* node.variation(i), i counted from 0.
Variation(game, node, i) == Append(node, Variations(game, node)[i + 1])

\* node.board().fen(): the position reached by the moves that lead to the
\* node.  The position string carries the move counters, so the positions of
\* two different plies of one line differ.
Fen(node) == node

\* The root node of a game, and the FEN of the starting position.
Root == <<>>
StartFen == Fen(Root)

\* Lines 58-64 with the final node recorded as well (a loop that runs until
\* the node is exhausted instead of until it has no variations).
RECURSIVE WalkInclusiveFrom(_, _, _)
WalkInclusiveFrom(game, node, acc) ==
    IF Variations(game, node) = <<>> THEN Append(acc, Fen(node))
    ELSE WalkInclusiveFrom(game, Variation(game, node, 0), Append(acc, Fen(node)))

WalkInclusive(game) == WalkInclusiveFrom(game, Root, <<>>)

\* Lines 58-64 following the last variation of each node instead of the
\* first, and recording the position after the move instead of before it.
RECURSIVE WalkLastFrom(_, _, _)
WalkLastFrom(game, node, acc) ==
    IF Variations(game, node) = <<>> THEN acc
    ELSE LET next_node ==
                Variation(game, node, Len(Variations(game, node)) - 1)
         IN WalkLastFrom(game, next_node, Append(acc, Fen(next_node)))

WalkLast(game) == WalkLastFrom(game, Root, <<>>)

\* Lines 58-64 with lines 62 and 63 exchanged: the position is recorded
\* after the move is followed.
RECURSIVE WalkFromRecordAfter(_, _, _)
WalkFromRecordAfter(game, node, acc) ==
    IF Variations(game, node) = <<>> THEN acc
    ELSE LET next_node == Variation(game, node, 0)
         IN WalkFromRecordAfter(game, next_node, Append(acc, Fen(next_node)))

\* Lines 58-64: the while loop of pgn_to_fen_list.
RECURSIVE WalkFrom(_, _, _)
WalkFrom(game, node, acc) ==
    IF Variations(game, node) = <<>> THEN acc
    ELSE WalkFrom(game, Variation(game, node, 0), Append(acc, Fen(node)))

Walk(game) == WalkFrom(game, Root, <<>>)

\* StringIO(pgn) raises TypeError unless pgn is a string or None.
StringIORaises(pgn) == pgn.t = "num"

\* Lines 52-67: pgn_to_fen_list.  `raised` tells that the except branch ran
\* (and logged the exception).
pgn_to_fen_list(pgn) ==
    IF StringIORaises(pgn) THEN [fens |-> <<>>, raised |-> TRUE]
    ELSE LET game == ReadGame(pgn.text) IN
         IF game.isNone THEN [fens |-> <<>>, raised |-> TRUE]
         ELSE [fens |-> Walk(game), raised |-> FALSE]

----------------------------------------------------------------------------
(* Request bodies, as request.json and the checks of lines 93-94 see them. *)
(*   absent  no JSON body: request.json is None or raises, by the          *)
(*           framework's version and the content type                      *)
(*   falsy   JSON null, false, 0, "", [] or {}                             *)
(*   scalar  a non-zero number or true: `"pgn" not in data` raises         *)
(*   haspgn  a list or string that contains "pgn": data.get raises         *)
(*   nopgn   a non-empty list or string that does not contain "pgn"        *)
(*   object  a non-empty key-value object                                  *)

Body(kind, pgn, d) == [kind |-> kind, pgn |-> pgn, depth |-> d]

NonObjectBodies ==
    {Body(k, PgnAbsent, JAbsent) : k \in {"absent", "falsy", "scalar", "haspgn", "nopgn"}}

\* The pgn values of the requests the server receives: a number, the empty
\* string, text without a legal move, and games of no, one and two moves.
NoMoves == PgnStr(<<NoteTok>>)
OneMove == PgnStr(<<MoveTok("a")>>)
TwoMoves == PgnStr(<<MoveTok("a"), MoveTok("b")>>)
ServerPgns ==
    {PgnNum, PgnStr(<<>>), PgnStr(<<BadTok>>), NoMoves, OneMove, TwoMoves}

\* The depth values line 101 rejects.
RejectedDepths == {JNull, JStr, JFloat, JInt(-1), JInt(0), JFalse}

\* Objects: every pgn with no depth and with depth 1; JSON true as depth
\* and every rejected depth, with a pgn that has moves and with an empty
\* one; and objects without a pgn.
ObjectBodies ==
    {Body("object", p, d) : p \in ServerPgns, d \in {JAbsent, JInt(1)}}
    \cup {Body("object", p, d) :
            p \in {OneMove, PgnStr(<<>>)}, d \in RejectedDepths \cup {JTrue}}
    \cup {Body("object", PgnAbsent, d) : d \in {JAbsent, JInt(1), JInt(0)}}

Bodies == NonObjectBodies \cup ObjectBodies

NoBody == Body("none", PgnAbsent, JAbsent)

\* The texts of the exceptions a call can raise, and NoExc for a call that
\* returns.
ExcTexts == {"exc1", "exc2"}
NoExc == ""
MayRaise == ExcTexts \cup {NoExc}

\* The text of the exception a failing call of the engine, the expander or
\* the writer raises: one text for each way to fail.
Raised(op) == IF op \in {"set_fen_position", "open"} THEN "exc1" ELSE "exc2"

----------------------------------------------------------------------------
(* Responses.  `kind` names the return statement that produced it.         *)

NoAnalysis == [pgn |-> PgnAbsent, depth |-> JAbsent, positions |-> <<>>]

Resp(status, kind, body, analysis) ==
    [status |-> status, kind |-> kind, body |-> body, analysis |-> analysis]

NoResponse == Resp(0, "none", "", NoAnalysis)

\* Line 90
EngineUnavailable ==
    Resp(500, "unavailable", "Stockfish engine is not initialized.", NoAnalysis)

\* Line 95
MissingPgn ==
    Resp(400, "missing_pgn", "Invalid request: 'pgn' field is required.", NoAnalysis)

\* Lines 102-107
BadDepth ==
    Resp(400, "bad_depth", "Invalid 'depth' value. It must be a positive integer.",
         NoAnalysis)

\* Line 115
NoPositions ==
    Resp(400, "no_positions", "No valid positions found in PGN.", NoAnalysis)

\* Line 141
SaveFailed ==
    Resp(500, "save_failed", "Failed to save analysis results.", NoAnalysis)

\* Line 147 with the exception's text put into the body.
InternalErrorLeaky(e) ==
    Resp(500, "internal",
         IF e = "exc1" THEN "An internal error occurred during analysis: exc1"
                       ELSE "An internal error occurred during analysis: exc2",
         NoAnalysis)

\* Lines 145-147: the handler of any exception e raised in the try block.
InternalError(e) ==
    Resp(500, "internal", "An internal error occurred during analysis.", NoAnalysis)

\* Line 143
Success(analysis) == Resp(200, "success", "success", analysis)

----------------------------------------------------------------------------
(* The engine session (the stockfish package, an external process).  The   *)
(* stub ranks the candidate moves of the position it holds; a move carries *)
(* the position it is a move of and the depth it was searched at.          *)

\* Every recorded position has a move that follows it, so at least one move
\* is legal in it.
LegalMoves(fen) == IF fen = StartFen THEN StartMoves ELSE Len(fen)

\* get_top_moves(n): the n best moves of the position held, best first.
TopMoves(eng, n) ==
    [i \in 1..Min(n, LegalMoves(eng.fen)) |->
        [Move |-> i, of |-> eng.fen, at |-> eng.depth]]

Call(op, d, fen) == [op |-> op, depth |-> d, fen |-> fen]

\* The stockfish package's set_depth stores the value without talking to the
\* engine process; the releases that validate it raise TypeError for a bool.
SetDepthMayRaise(d) == d.t = "bool"

----------------------------------------------------------------------------
(* The state after the module has been loaded (lines 14-48): the engine    *)
(* was started, or `stockfish` is None.                                    *)

Idle == [w \in Workers |-> "idle"]

WorkersInit ==
    /\ engine = [depth |-> JInt(MAX_DEPTH), fen |-> StartFen]
    /\ pc = Idle
    /\ req = [w \in Workers |-> NoBody]
    /\ depth = [w \in Workers |-> JAbsent]
    /\ fens = [w \in Workers |-> <<>>]
    /\ index = [w \in Workers |-> 0]
    /\ positions = [w \in Workers |-> <<>>]
    /\ response = [w \in Workers |-> NoResponse]
    /\ logged = [w \in Workers |-> NoExc]
    /\ calls = [w \in Workers |-> <<>>]
    /\ storage = {}
    /\ next_uuid = 1
    /\ nreq = 0

\* Parameters of the engine: a key-value object (its items), a list, or
\* nothing yet.
Params(t, items) == [t |-> t, items |-> items]
EmptyParams == Params("dict", {})
Unbound == Params("unbound", {})

\* The configuration file: missing, unreadable (open() is refused),
\* undecodable (bytes that are no text), malformed (no JSON), a JSON list,
\* or a JSON object with the given items.
Config(kind, items) == [kind |-> kind, items |-> items]

\* The module has been loaded with no configuration file present.
StartupDone ==
    /\ config = Config("missing", {})
    /\ engine_params = EmptyParams
    /\ main_pc = "serving"

ServerInit ==
    /\ stockfish \in {"None", "Engine"}
    /\ WorkersInit
    /\ StartupDone

HarnessOff ==
    /\ x_pc = "off"
    /\ x_pgn = PgnAbsent
    /\ x_out = [fens |-> <<>>, raised |-> FALSE]

Init == ServerInit /\ HarnessOff

\* A return statement that is never reached: the handler blocks before it
\* and no response leaves.
ReturnHangs(w, resp) ==
    /\ response' = [response EXCEPT ![w] = NoResponse]
    /\ pc' = [pc EXCEPT ![w] = "returning"]
    /\ depth' = [depth EXCEPT ![w] = JAbsent]
    /\ fens' = [fens EXCEPT ![w] = <<>>]
    /\ index' = [index EXCEPT ![w] = 0]
    /\ positions' = [positions EXCEPT ![w] = <<>>]

\* A return statement of analyze_pgn: the response leaves and the locals die.
Return(w, resp) ==
    /\ response' = [response EXCEPT ![w] = resp]
    /\ pc' = [pc EXCEPT ![w] = "done"]
    /\ depth' = [depth EXCEPT ![w] = JAbsent]
    /\ fens' = [fens EXCEPT ![w] = <<>>]
    /\ index' = [index EXCEPT ![w] = 0]
    /\ positions' = [positions EXCEPT ![w] = <<>>]

\* Lines 145-147: an exception with text e reaches the except clause.
Except(w, e) ==
    /\ logged' = [logged EXCEPT ![w] = e]
    /\ Return(w, InternalError(e))

\* Line 98 taking MAX_DEPTH whatever the request says.
GetDepthAlwaysDefault(body) == JInt(MAX_DEPTH)

\* depth = data.get("depth", MAX_DEPTH), line 98
GetDepth(body) == IF body.depth = JAbsent THEN JInt(MAX_DEPTH) ELSE body.depth

\* Line 101: not isinstance(depth, int) or depth <= 0
DepthRejected(d) == ~IsInstanceInt(d) \/ d.v <= 0

\* Line 94: not data or "pgn" not in data, for a body on which neither
\* operand raises.
PgnMissing(body) ==
    \/ body.kind \in {"absent", "falsy", "nopgn"}
    \/ body.kind = "object" /\ body.pgn = PgnAbsent

\* Lines 93-97: what reading the body can raise (NoExc: nothing).
\* request.json on no JSON body returns None or raises, by the framework's
\* version and the content type; `in` raises on a number and .get on a list
\* or string.
BodyOutcomes(body) ==
    CASE body.kind = "absent" -> MayRaise
      [] body.kind \in {"scalar", "haspgn"} -> ExcTexts
      [] OTHER -> {NoExc}

\* Lines 89-90 left out: the request goes on to the try block.
BeginNoEngineCheck(w) ==
    /\ pc[w] \in {"idle", "done"}
    /\ nreq < MaxRequests
    /\ \E body \in Bodies : \E e \in BodyOutcomes(body) :
        /\ req' = [req EXCEPT ![w] = body]
        /\ nreq' = nreq + 1
        /\ calls' = [calls EXCEPT ![w] = <<>>]
        /\ IF e # NoExc THEN Except(w, e)
           ELSE IF PgnMissing(body) THEN
                /\ Return(w, MissingPgn)
                /\ logged' = [logged EXCEPT ![w] = NoExc]
           ELSE IF DepthRejected(GetDepth(body)) THEN
                /\ Return(w, BadDepth)
                /\ logged' = [logged EXCEPT ![w] = NoExc]
           ELSE /\ depth' = [depth EXCEPT ![w] = GetDepth(body)]
                /\ pc' = [pc EXCEPT ![w] = "set_depth"]
                /\ response' = [response EXCEPT ![w] = NoResponse]
                /\ logged' = [logged EXCEPT ![w] = NoExc]
                /\ UNCHANGED <<fens, index, positions>>
    /\ UNCHANGED <<stockfish, engine, storage, next_uuid, harness_vars, startup_vars>>

\* Lines 88-107: a request with a body of `bodies` arrives at a free worker;
\* the engine check and the validation of the body.
BeginFrom(w, bodies) ==
    /\ pc[w] \in {"idle", "done"}
    /\ nreq < MaxRequests
    /\ \E body \in bodies :
       \E e \in IF stockfish = "None" THEN {NoExc} ELSE BodyOutcomes(body) :
        /\ req' = [req EXCEPT ![w] = body]
        /\ nreq' = nreq + 1
        /\ calls' = [calls EXCEPT ![w] = <<>>]
        /\ IF stockfish = "None" THEN
                /\ Return(w, EngineUnavailable)
                /\ logged' = [logged EXCEPT ![w] = NoExc]
           ELSE IF e # NoExc THEN Except(w, e)
           ELSE IF PgnMissing(body) THEN
                /\ Return(w, MissingPgn)
                /\ logged' = [logged EXCEPT ![w] = NoExc]
           ELSE IF DepthRejected(GetDepth(body)) THEN
                /\ Return(w, BadDepth)
                /\ logged' = [logged EXCEPT ![w] = NoExc]
           ELSE /\ depth' = [depth EXCEPT ![w] = GetDepth(body)]
                /\ pc' = [pc EXCEPT ![w] = "set_depth"]
                /\ response' = [response EXCEPT ![w] = NoResponse]
                /\ logged' = [logged EXCEPT ![w] = NoExc]
                /\ UNCHANGED <<fens, index, positions>>
    /\ UNCHANGED <<stockfish, engine, storage, next_uuid, harness_vars, startup_vars>>

\* A request arrives at a free worker of the threaded server.
Begin(w) == BeginFrom(w, Bodies)

\* set_depth left out when the depth is the default one.
SetDepthUnlessDefault(eng, d) ==
    IF d = JInt(MAX_DEPTH) THEN eng ELSE [eng EXCEPT !.depth = d]

\* stockfish.set_depth(d): the session searches at depth d from now on.
EngineSetDepth(eng, d) == [eng EXCEPT !.depth = d]

\* Line 110: stockfish.set_depth(depth)
SetDepth(w) ==
    /\ pc[w] = "set_depth"
    /\ calls' = [calls EXCEPT ![w] = Append(@, Call("set_depth", depth[w], <<>>))]
    /\ \E e \in IF SetDepthMayRaise(depth[w]) THEN {NoExc, Raised("set_depth")}
                                             ELSE {NoExc} :
        IF e # NoExc THEN
            /\ Except(w, e)
            /\ UNCHANGED engine
        ELSE
            /\ engine' = EngineSetDepth(engine, depth[w])
            /\ pc' = [pc EXCEPT ![w] = "expand"]
            /\ UNCHANGED <<depth, fens, index, positions, response, logged>>
    /\ UNCHANGED <<stockfish, req, storage, next_uuid, nreq, harness_vars, startup_vars>>

\* Lines 113-119: fens = pgn_to_fen_list(pgn), and the test of its result.
Expand(w) ==
    /\ pc[w] = "expand"
    /\ calls' = [calls EXCEPT ![w] = Append(@, Call("pgn_to_fen_list", JAbsent, <<>>))]
    /\ LET r == pgn_to_fen_list(req[w].pgn) IN
       \E e \in IF r.raised THEN {Raised("pgn_to_fen_list")} ELSE {NoExc} :
        /\ logged' = [logged EXCEPT ![w] = e]
        /\ IF r.fens = <<>> THEN Return(w, NoPositions)
           ELSE /\ fens' = [fens EXCEPT ![w] = r.fens]
                /\ positions' = [positions EXCEPT ![w] = <<>>]
                /\ index' = [index EXCEPT ![w] = 0]
                /\ pc' = [pc EXCEPT ![w] = "set_fen"]
                /\ UNCHANGED <<depth, response>>
    /\ UNCHANGED <<stockfish, engine, req, storage, next_uuid, nreq, harness_vars, startup_vars>>

\* The loop variable never advanced past the first element.
LoopFenStale(w) == fens[w][1]

\* Line 121: the `fen` of the current iteration of the loop.
LoopFen(w) == fens[w][index[w] + 1]

\* Line 122 called again after it raised, instead of leaving to line 145.
SetFenRetry(w) ==
    /\ pc[w] = "set_fen"
    /\ LET fen == LoopFen(w) IN
        /\ calls' = [calls EXCEPT ![w] = Append(@, Call("set_fen_position", JAbsent, fen))]
        /\ \E e \in {NoExc, Raised("set_fen_position")} :
            IF e # NoExc THEN
                /\ logged' = [logged EXCEPT ![w] = e]
                /\ UNCHANGED <<engine, pc, depth, fens, index, positions, response>>
            ELSE
                /\ engine' = [engine EXCEPT !.fen = fen]
                /\ pc' = [pc EXCEPT ![w] = "get_top_moves"]
                /\ UNCHANGED <<depth, fens, index, positions, response, logged>>
    /\ UNCHANGED <<stockfish, req, storage, next_uuid, nreq, harness_vars, startup_vars>>

\* Line 122: stockfish.set_fen_position(fen)
SetFen(w) ==
    /\ pc[w] = "set_fen"
    /\ LET fen == LoopFen(w) IN
        /\ calls' = [calls EXCEPT ![w] = Append(@, Call("set_fen_position", JAbsent, fen))]
        /\ \E e \in {NoExc, Raised("set_fen_position")} :
            IF e # NoExc THEN
                /\ Except(w, e)
                /\ UNCHANGED engine
            ELSE
                /\ engine' = [engine EXCEPT !.fen = fen]
                /\ pc' = [pc EXCEPT ![w] = "get_top_moves"]
                /\ UNCHANGED <<depth, fens, index, positions, response, logged>>
    /\ UNCHANGED <<stockfish, req, storage, next_uuid, nreq, harness_vars, startup_vars>>

\* Line 124 with the engine's list reversed before it is stored.
EntryReversed(fen, best_moves) ==
    [fen |-> fen,
     best_moves |-> [i \in 1..Len(best_moves) |-> best_moves[Len(best_moves) + 1 - i]]]

\* Line 124: the entry appended to positions.
Entry(fen, best_moves) == [fen |-> fen, best_moves |-> best_moves]

\* Lines 123-134: best_moves = stockfish.get_top_moves(3), the append, and
\* the step of the loop.
GetTopMoves(w) ==
    /\ pc[w] = "get_top_moves"
    /\ LET fen == LoopFen(w) IN
        /\ calls' = [calls EXCEPT ![w] = Append(@, Call("get_top_moves", JAbsent, fen))]
        /\ \E e \in {NoExc, Raised("get_top_moves")} :
            IF e # NoExc THEN Except(w, e)
            ELSE
                /\ positions' = [positions EXCEPT ![w] =
                                    Append(@, Entry(fen, TopMoves(engine, TOP_N)))]
                /\ index' = [index EXCEPT ![w] = @ + 1]
                /\ pc' = [pc EXCEPT ![w] =
                            IF index[w] + 1 < Len(fens[w]) THEN "set_fen" ELSE "save"]
                /\ UNCHANGED <<depth, fens, response, logged>>
    /\ UNCHANGED <<stockfish, engine, req, storage, next_uuid, nreq, harness_vars, startup_vars>>

\* A file of ANALYSES_FOLDER: its name and what json.dump wrote; `complete`
\* is FALSE when the write stopped before the end of the document.
File(name, complete, data) == [name |-> name, complete |-> complete, data |-> data]

\* Line 74 naming the file by the timestamp alone, which two requests of
\* the same second share.
FileNameNoUuid(uuid) == 0

\* Lines 72-75: the file's name; the uuid4 part makes it a name no earlier
\* file has.
FileName(uuid) == uuid

\* Lines 78-79: open(filepath, "w") replaces a file of that name; then
\* json.dump writes the document, completely or not.
Write(store, name, complete, data) ==
    {f \in store : f.name # name} \cup {File(name, complete, data)}

\* Lines 140-143 answering success whatever save_analysis_to_file returned.
SaveResponseIgnoringFailure(saved, analysis_data) == Success(analysis_data)

\* Lines 140-143: the response after save_analysis_to_file returned.
SaveResponse(saved, analysis_data) ==
    IF saved THEN Success(analysis_data) ELSE SaveFailed

\* Lines 136-143 and 71-83: the record is assembled and written.  The write
\* succeeds, or open() fails and no file appears, or json.dump fails after
\* open() created the file.
Save(w) ==
    /\ pc[w] = "save"
    /\ LET analysis_data ==
            [pgn |-> req[w].pgn, depth |-> depth[w], positions |-> positions[w]]
       IN
       \E out \in {"written", "nofile", "partial"} :
       \E e \in IF out = "written" THEN {NoExc}
                ELSE IF out = "nofile" THEN {Raised("open")} ELSE {Raised("dump")} :
        /\ storage' =
            IF out = "nofile" THEN storage
            ELSE Write(storage, FileName(next_uuid), out = "written", analysis_data)
        /\ logged' = [logged EXCEPT ![w] = e]
        /\ Return(w, SaveResponse(out = "written", analysis_data))
    /\ next_uuid' = next_uuid + 1
    /\ calls' = [calls EXCEPT ![w] = Append(@, Call("save_analysis_to_file", JAbsent, <<>>))]
    /\ UNCHANGED <<stockfish, engine, req, nreq, harness_vars, startup_vars>>

Next ==
    \E w \in Workers :
        \/ Begin(w)
        \/ SetDepth(w)
        \/ Expand(w)
        \/ SetFen(w)
        \/ GetTopMoves(w)
        \/ Save(w)

Spec == Init /\ [][Next]_vars

----------------------------------------------------------------------------
(* The server handling one request at a time: a request arrives only when  *)
(* no other is being handled.  Its requests include a game of three moves. *)

ThreeMoves == PgnStr(<<MoveTok("a"), MoveTok("b"), MoveTok("a")>>)

SeqBodies == Bodies \cup {Body("object", ThreeMoves, JAbsent)}

BeginSeq(w) ==
    /\ \A v \in Workers \ {w} : pc[v] \in {"idle", "done"}
    /\ BeginFrom(w, SeqBodies)

NextSeq ==
    \E w \in Workers :
        \/ BeginSeq(w)
        \/ SetDepth(w)
        \/ Expand(w)
        \/ SetFen(w)
        \/ GetTopMoves(w)
        \/ Save(w)

SpecSeq == Init /\ [][NextSeq]_vars

----------------------------------------------------------------------------
(* The server with its threads scheduled fairly, for termination.          *)

\* The steps of the request a worker is handling.
Step(w) == SetDepth(w) \/ Expand(w) \/ SetFen(w) \/ GetTopMoves(w) \/ Save(w)

\* Every call of the engine, the expander and the writer returns or raises,
\* and the server's threads keep being scheduled: a request that can take
\* its next step takes it.  Nothing makes a request arrive.
Fairness == \A w \in Workers : WF_vars(Step(w))

\* One request body for each way through analyze_pgn: no body, no pgn, a
\* rejected depth, a depth set_depth may refuse, a game without moves, and
\* a game of two moves.
FairBodies ==
    {Body("absent", PgnAbsent, JAbsent),
     Body("object", PgnAbsent, JAbsent),
     Body("object", OneMove, JInt(0)),
     Body("object", OneMove, JTrue),
     Body("object", NoMoves, JAbsent),
     Body("object", TwoMoves, JInt(1))}

BeginFair(w) == BeginFrom(w, FairBodies)

NextFair ==
    \E w \in Workers :
        \/ BeginFair(w)
        \/ SetDepth(w)
        \/ Expand(w)
        \/ SetFen(w)
        \/ GetTopMoves(w)
        \/ Save(w)

SpecFair == Init /\ [][NextFair]_vars /\ Fairness

----------------------------------------------------------------------------
(* The module's top-level code, lines 29-48: the configuration is loaded   *)
(* and the engine is started.                                              *)

ParamKeys == {"Threads", "Hash", "Skill Level"}
ParamValues == 1..MaxParamValue

\* The key-value objects: at most one value for a key.
ParamObjects ==
    {S \in SUBSET [key : ParamKeys, value : ParamValues] :
        \A a, b \in S : a.key = b.key => a = b}

Configs ==
    {Config(k, {}) : k \in {"missing", "unreadable", "undecodable", "malformed", "list"}}
    \cup {Config("object", S) : S \in ParamObjects}

StartupInit ==
    /\ WorkersInit
    /\ HarnessOff
    /\ stockfish = "unbound"
    /\ config \in Configs
    /\ engine_params = Unbound
    /\ main_pc = "load_config"

\* Line 35: except (FileNotFoundError, json.JSONDecodeError).  open() of a
\* missing file raises FileNotFoundError and json.load of text that is no
\* JSON raises JSONDecodeError; an unreadable file raises PermissionError
\* and bytes that are no text raise UnicodeDecodeError.
LoadFailureCaught(kind) == kind \in {"missing", "malformed"}

\* Lines 30-37
LoadConfig ==
    /\ main_pc = "load_config"
    /\ IF config.kind \in {"object", "list"} THEN
            /\ engine_params' =
                 Params(IF config.kind = "object" THEN "dict" ELSE "list", config.items)
            /\ main_pc' = "init_engine"
       ELSE IF LoadFailureCaught(config.kind) THEN
            /\ engine_params' = EmptyParams
            /\ main_pc' = "init_engine"
       ELSE /\ main_pc' = "aborted"
            /\ UNCHANGED engine_params
    /\ UNCHANGED <<config, server_vars, harness_vars>>

\* Lines 43-48: Stockfish(path, parameters) starts the engine or raises;
\* with parameters that are no key-value object it raises.
InitEngine ==
    /\ main_pc = "init_engine"
    /\ \E ok \in BOOLEAN :
        stockfish' = IF ok /\ engine_params.t = "dict" THEN "Engine" ELSE "None"
    /\ main_pc' = "serving"
    /\ UNCHANGED <<config, engine_params, engine, pc, req, depth, fens, index,
                   positions, response, logged, calls, storage, next_uuid, nreq,
                   harness_vars>>

StartupNext == LoadConfig \/ InitEngine

SpecStartup == StartupInit /\ [][StartupNext]_vars

----------------------------------------------------------------------------
(* pgn_to_fen_list on its own: the function applied to every pgn value of  *)
(* up to MaxPgnLen tokens.                                                 *)

HarnessPgns == {PgnNull, PgnNum} \cup {PgnStr(s) : s \in SeqUpTo(Tokens, MaxPgnLen)}

ExpandInit ==
    /\ ServerInit
    /\ stockfish = "Engine"
    /\ x_pc = "input"
    /\ x_pgn \in HarnessPgns
    /\ x_out = [fens |-> <<>>, raised |-> FALSE]

ExpandApply ==
    /\ x_pc = "input"
    /\ x_out' = pgn_to_fen_list(x_pgn)
    /\ x_pc' = "output"
    /\ UNCHANGED <<x_pgn, server_vars, startup_vars>>

ExpandNext == ExpandApply

SpecExpand == ExpandInit /\ [][ExpandNext]_vars

----------------------------------------------------------------------------
(* Vocabulary of the properties *)

Done(w) == pc[w] = "done"

Succeeded(w) == Done(w) /\ response[w].status = 200

\* The ops of the calls a request made, in order.
Ops(w) == [i \in 1..Len(calls[w]) |-> calls[w][i].op]

Called(w, op) == \E i \in 1..Len(calls[w]) : calls[w][i].op = op

\* The request carries a pgn field.
HasPgn(w) == req[w].kind = "object" /\ req[w].pgn # PgnAbsent

\* A pgn that is empty (null, the empty string) or cannot be parsed (not
\* text, or text whose first token is no legal move).
EmptyOrUnparsable(pgn) ==
    \/ pgn.t \in {"null", "num"}
    \/ pgn.t = "str" /\ (pgn.text = <<>> \/ pgn.text[1].k = "bad")

\* A depth that is no JSON integer, or an integer that is not positive.
NotPositiveInteger(d) == d.t # "int" \/ d.v <= 0

----------------------------------------------------------------------------
\* C1: in every successful result, the recommendations stored next to a
\* position are moves the engine computed for that position: no entry holds
\* moves computed while the engine held a position another request had set.
\* A request sets each of its positions right before it queries, so moves of
\* any other position can only come from another request's set_fen_position.
C1_NoMisattribution ==
    \A w \in Workers :
        Succeeded(w) =>
            \A i \in 1..Len(response[w].analysis.positions) :
                LET entry == response[w].analysis.positions[i] IN
                \A j \in 1..Len(entry.best_moves) :
                    entry.best_moves[j].of = entry.fen

----------------------------------------------------------------------------
\* C2: with the engine not initialized, every request is answered with the
\* engine-unavailable 500 response and calls neither the expander nor the
\* engine, and nothing makes the engine available again.
C2_UnavailableForever ==
    /\ [](stockfish = "None" =>
            \A w \in Workers :
                /\ pc[w] \in {"idle", "done"}
                /\ calls[w] = <<>>
                /\ Done(w) => response[w] = EngineUnavailable)
    /\ [][stockfish = "None" => stockfish' = "None"]_vars

\* A request with a playable pgn and a valid depth was answered while the
\* engine was unavailable.
C2_Witness ==
    /\ stockfish = "None"
    /\ \E w \in Workers :
        /\ Done(w)
        /\ req[w] = Body("object", TwoMoves, JInt(1))
        /\ response[w].status = 500

----------------------------------------------------------------------------
----------------------------------------------------------------------------
\* C4: a request whose depth is present and is no integer, zero or negative
\* ends with the 400 response, whatever its pgn.  Stated for a running
\* engine and a key-value body.
C4_BadDepthIs400 ==
    \A w \in Workers :
        (stockfish = "Engine" /\ Done(w) /\ req[w].kind = "object"
            /\ req[w].depth # JAbsent /\ NotPositiveInteger(req[w].depth))
        => response[w].status = 400

----------------------------------------------------------------------------
\* C5: a request whose body is absent, is no key-value object, or lacks a
\* non-empty pgn field ends with a 400 response and never with a 500.
\* Stated for a running engine.
C5_BadBodyIs400 ==
    \A w \in Workers :
        (stockfish = "Engine" /\ Done(w)
            /\ \/ req[w].kind \in {"absent", "falsy", "scalar", "haspgn", "nopgn"}
               \/ req[w].kind = "object"
                    /\ req[w].pgn \in {PgnAbsent, PgnNull, PgnStr(<<>>)})
        => response[w].status = 400

----------------------------------------------------------------------------
(* Valid PGN text and its played moves, read off the tokens. *)

\* Every token is a legal move, a variation of a move before it, or no move.
ValidPgn(pgn) ==
    /\ pgn.t = "str"
    /\ pgn.text # <<>>
    /\ \A i \in 1..Len(pgn.text) :
        /\ pgn.text[i].k # "bad"
        /\ pgn.text[i].k = "alt" => \E j \in 1..(i - 1) : pgn.text[j].k = "move"

\* The moves played in the main line, in order.
RECURSIVE PlayedMoves(_)
PlayedMoves(text) ==
    IF text = <<>> THEN <<>>
    ELSE IF Head(text).k = "move" THEN <<Head(text).m>> \o PlayedMoves(Tail(text))
    ELSE PlayedMoves(Tail(text))

\* Text that parses to a game with no move.
ZeroMoveGame(pgn) == ValidPgn(pgn) /\ PlayedMoves(pgn.text) = <<>>

----------------------------------------------------------------------------
\* C6 as stated: for a valid PGN with M played moves the expander returns
\* exactly M+1 positions, the first being the starting position.
C6_Original ==
    (x_pc = "output" /\ ValidPgn(x_pgn)) =>
        /\ Len(x_out.fens) = Len(PlayedMoves(x_pgn.text)) + 1
        /\ x_out.fens[1] = StartFen

\* C6 amended: for a valid PGN with M played moves the expander returns
\* exactly M positions in ply order, the i-th being the position before the
\* i-th move (the first is the starting position when M >= 1); the position
\* after the final move is not returned.
C6_PositionsBeforeEachMove ==
    (x_pc = "output" /\ ValidPgn(x_pgn)) =>
        LET played == PlayedMoves(x_pgn.text) IN
        /\ ~x_out.raised
        /\ Len(x_out.fens) = Len(played)
        /\ \A i \in 1..Len(played) : x_out.fens[i] = Fen(SubSeq(played, 1, i - 1))

\* A valid PGN of two played moves, the second with a side variation, has
\* been expanded.
C6_Witness ==
    /\ x_pc = "output"
    /\ x_pgn = PgnStr(<<MoveTok("a"), MoveTok("a"), AltTok("b")>>)
    /\ x_out.fens = <<StartFen, <<"a">>>>

----------------------------------------------------------------------------
----------------------------------------------------------------------------
\* C8: in every successful result each entry holds at most 3 moves, and they
\* are the engine's list as it returned it: ranked 1, 2, ... in order, and as
\* many as the engine returns for 3 requested moves of that position.
C8_TopThreeInEngineOrder ==
    \A w \in Workers :
        Succeeded(w) =>
            \A i \in 1..Len(response[w].analysis.positions) :
                LET best_moves == response[w].analysis.positions[i].best_moves IN
                /\ Len(best_moves) <= 3
                /\ Len(best_moves) >= 1
                /\ \A j \in 1..Len(best_moves) : best_moves[j].Move = j
                /\ best_moves =
                     TopMoves([fen |-> best_moves[1].of, depth |-> best_moves[1].at], 3)

\* A successful result with an entry of 3 moves (cut from a longer ranking)
\* and an entry of fewer.
C8_Witness ==
    \E w \in Workers :
        /\ Succeeded(w)
        /\ \E i, j \in 1..Len(response[w].analysis.positions) :
            /\ Len(response[w].analysis.positions[i].best_moves) = 3
            /\ Len(response[w].analysis.positions[j].best_moves) < 3

----------------------------------------------------------------------------
\* C9: when the write of the record fails, analyze answers with the 500
\* "Failed to save" response; and a success response is returned only when
\* the record of that request is in storage, completely written.
C9_SuccessOnlyAfterWrite ==
    \A w \in Workers :
        /\ (Done(w) /\ Called(w, "save_analysis_to_file") /\ logged[w] # NoExc)
                => response[w] = SaveFailed
        /\ Succeeded(w) =>
                \E f \in storage : f.complete /\ f.data = response[w].analysis

\* A request whose write failed after the file was created.
C9_Witness ==
    \E w \in Workers :
        /\ Done(w)
        /\ response[w] = SaveFailed
        /\ \E f \in storage : ~f.complete

----------------------------------------------------------------------------
\* C10: every error response body is one of the fixed messages, and two
\* requests that fail with the same kind of error get the same body, also
\* when the exceptions behind them differ.
FixedMessages ==
    {"Stockfish engine is not initialized.",
     "Invalid request: 'pgn' field is required.",
     "Invalid 'depth' value. It must be a positive integer.",
     "No valid positions found in PGN.",
     "Failed to save analysis results.",
     "An internal error occurred during analysis."}

Failed(w) == Done(w) /\ response[w].status # 200

C10_ConstantErrorBodies ==
    /\ \A w \in Workers : Failed(w) => response[w].body \in FixedMessages
    /\ \A w1, w2 \in Workers :
        (Failed(w1) /\ Failed(w2) /\ response[w1].kind = response[w2].kind)
            => response[w1].body = response[w2].body

\* Two requests failed with an internal error, raised with different texts.
C10_Witness ==
    \E w1, w2 \in Workers :
        /\ Failed(w1) /\ Failed(w2)
        /\ response[w1].kind = "internal" /\ response[w2].kind = "internal"
        /\ logged[w1] = "exc1" /\ logged[w2] = "exc2"

----------------------------------------------------------------------------
\* The record a request yields when each position is analysed by an engine
\* that holds that position and the request's depth: a function of the
\* request's body alone.
OwnAnalysis(body) ==
    LET d == IF body.depth = JAbsent THEN JInt(15) ELSE body.depth
        f == pgn_to_fen_list(body.pgn).fens
    IN [pgn |-> body.pgn,
        depth |-> d,
        positions |-> [i \in 1..Len(f) |->
            [fen |-> f[i],
             best_moves |-> TopMoves([depth |-> d, fen |-> f[i]], 3)]]]

\* C11: with requests handled one after the other, the response is decided
\* by the request's body, the engine's availability and the outcome of the
\* request's own calls: a successful result is the record of that body alone,
\* whatever depth and position earlier requests left in the engine, and two
\* requests with the same body and the same outcomes get the same response.
C11_SequentialIndependence ==
    /\ \A w \in Workers :
        Succeeded(w) => response[w].analysis = OwnAnalysis(req[w])
    /\ \A w1, w2 \in Workers :
        (Done(w1) /\ Done(w2) /\ req[w1] = req[w2] /\ Ops(w1) = Ops(w2)
            /\ (logged[w1] = NoExc) = (logged[w2] = NoExc))
        => response[w1] = response[w2]

\* A request with the default depth succeeded after a request of depth 1 and
\* two positions had succeeded: the engine held depth 1 and the second
\* position when it arrived.
C11_Witness ==
    \E w1, w2 \in Workers :
        /\ w1 # w2
        /\ Succeeded(w1) /\ req[w1] = Body("object", TwoMoves, JInt(1))
        /\ Succeeded(w2) /\ req[w2] = Body("object", OneMove, JAbsent)
        /\ engine = [depth |-> JInt(15), fen |-> StartFen]

----------------------------------------------------------------------------
\* C12: startup never aborts because of the configuration file, and with a
\* file that is absent or corrupt (unreadable, malformed, no key-value
\* object) the engine parameters are the empty configuration when the
\* engine is started.
C12_StartupNeverAborts ==
    /\ main_pc # "aborted"
    /\ (main_pc \in {"init_engine", "serving"} /\ config.kind # "object")
            => engine_params = EmptyParams

----------------------------------------------------------------------------
\* C13: for a request with no depth field the depth passed to set_depth and
\* written in the returned record is MAX_DEPTH; for a request with a valid
\* depth (a positive integer) it is that value.
C13_DepthPassedAndRecorded ==
    \A w \in Workers :
        (req[w].kind = "object"
            /\ (req[w].depth = JAbsent \/ ~NotPositiveInteger(req[w].depth)))
        => LET d == IF req[w].depth = JAbsent THEN JInt(MAX_DEPTH) ELSE req[w].depth
           IN /\ Called(w, "set_depth") => calls[w][1] = Call("set_depth", d, <<>>)
              /\ Succeeded(w) => response[w].analysis.depth = d

\* A request without depth and a request with depth 1 have both succeeded.
C13_Witness ==
    \E w1, w2 \in Workers :
        /\ Succeeded(w1) /\ req[w1].depth = JAbsent
        /\ response[w1].analysis.depth = JInt(15)
        /\ Succeeded(w2) /\ req[w2].depth = JInt(1)
        /\ response[w2].analysis.depth = JInt(1)

----------------------------------------------------------------------------
\* The engine operations of the shared session.
EngineOps == {"set_depth", "set_fen_position", "get_top_moves"}

IsEngineCall(c) == c.op \in EngineOps

\* The engine calls a request made, in order.
EngineCalls(w) == SelectSeq(calls[w], IsEngineCall)

\* C14: a request that ends with a 400 response has called no engine
\* operation (set_depth, set_fen_position, get_top_moves).
C14_NoEngineCallBefore400 ==
    \A w \in Workers :
        (Done(w) /\ response[w].status = 400) => EngineCalls(w) = <<>>

----------------------------------------------------------------------------
\* set_depth(d), then for each position in order set_fen_position(p) and
\* get_top_moves(3) on it.
ExpectedEngineCalls(d, ps) ==
    [i \in 1..(2 * Len(ps) + 1) |->
        IF i = 1 THEN Call("set_depth", d, <<>>)
        ELSE Call(IF i % 2 = 0 THEN "set_fen_position" ELSE "get_top_moves",
                  JAbsent, ps[i \div 2])]

\* The expander's answer for each pgn value a request can carry.
RequestPgns == {b.pgn : b \in SeqBodies \cup {NoBody}}
Expanded == [p \in RequestPgns |-> pgn_to_fen_list(p).fens]

IsPrefix(s, t) == Len(s) <= Len(t) /\ s = SubSeq(t, 1, Len(s))

\* C15: a request that succeeds with positions p1..pk has made exactly the
\* engine calls set_depth(depth), then set_fen_position(pi), get_top_moves
\* for i = 1..k in order; at every moment the engine calls made so far are a
\* prefix of that sequence (nothing is repeated), and a request that ended
\* with the internal error made its failing engine call last.
C15_EngineCallSequence ==
    \A w \in Workers :
        EngineCalls(w) # <<>> =>
            LET expected == ExpectedEngineCalls(GetDepth(req[w]),
                                                Expanded[req[w].pgn])
            IN /\ IsPrefix(EngineCalls(w), expected)
               /\ Succeeded(w) => EngineCalls(w) = expected
               /\ (Done(w) /\ response[w] = InternalError(logged[w])) =>
                    calls[w][Len(calls[w])].op \in EngineOps

\* One request of two positions succeeded after its five engine calls, and
\* another stopped at a failing engine call.
C15_Witness ==
    \E w1, w2 \in Workers :
        /\ Succeeded(w1) /\ Len(response[w1].analysis.positions) = 2
        /\ Len(EngineCalls(w1)) = 5
        /\ Done(w2) /\ response[w2].status = 500 /\ logged[w2] # NoExc
        /\ EngineCalls(w2) # <<>>

----------------------------------------------------------------------------
\* The positions before each move of a line: its proper prefixes, in order.
PositionsBefore(played) == [i \in 1..Len(played) |-> Fen(SubSeq(played, 1, i - 1))]

\* The positions of the entries of a result.
FensOf(entries) == [i \in 1..Len(entries) |-> entries[i].fen]

\* C16: the expander records the position before each move of the main line
\* and never the position after the final move; a main line of 3 plies gives
\* exactly 3 positions (initial, after the 1st move, after the 2nd), and the
\* success response carries a positions array of that same length.
C16_ThreePliesThreePositions ==
    \A w \in Workers :
        ValidPgn(req[w].pgn) =>
            LET played == PlayedMoves(req[w].pgn.text) IN
            /\ pc[w] \in {"set_fen", "get_top_moves", "save"} =>
                /\ fens[w] = PositionsBefore(played)
                /\ \A i \in 1..Len(fens[w]) : fens[w][i] # Fen(played)
                /\ req[w].pgn = ThreeMoves =>
                    fens[w] = <<StartFen, <<"a">>, <<"a", "b">>>>
            /\ Succeeded(w) =>
                /\ Len(response[w].analysis.positions) = Len(played)
                /\ FensOf(response[w].analysis.positions) = PositionsBefore(played)
                /\ req[w].pgn = ThreeMoves =>
                    Len(response[w].analysis.positions) = 3

\* The request with the main line of 3 plies has succeeded with 3 entries.
C16_Witness ==
    \E w \in Workers :
        /\ Succeeded(w)
        /\ req[w].pgn = ThreeMoves
        /\ FensOf(response[w].analysis.positions) = <<StartFen, <<"a">>, <<"a", "b">>>>

----------------------------------------------------------------------------
\* C17: with requests handled one after the other, a successful result has
\* exactly one entry per position the expander returned, in the same order,
\* and entry i pairs the i-th position with the moves the engine returned
\* for it: the moves of that position, asked for right after that position
\* was set.
C17_EntryPerPosition ==
    \A w \in Workers :
        Succeeded(w) =>
            LET f == pgn_to_fen_list(req[w].pgn).fens
                entries == response[w].analysis.positions
                made == EngineCalls(w)
            IN /\ Len(entries) = Len(f)
               /\ \A i \in 1..Len(entries) :
                    /\ entries[i].fen = f[i]
                    /\ made[2 * i] = Call("set_fen_position", JAbsent, f[i])
                    /\ made[2 * i + 1] = Call("get_top_moves", JAbsent, f[i])
                    /\ entries[i].best_moves # <<>>
                    /\ \A j \in 1..Len(entries[i].best_moves) :
                            entries[i].best_moves[j].of = f[i]

\* A result of three entries whose moves are those of three different
\* positions.
C17_Witness ==
    \E w \in Workers :
        /\ Succeeded(w)
        /\ Len(response[w].analysis.positions) = 3
        /\ response[w].analysis.positions[2].best_moves[1].of = <<"a">>
        /\ response[w].analysis.positions[3].best_moves[1].of = <<"a", "b">>

----------------------------------------------------------------------------
\* C18: the depth written in a successful record is the depth the shared
\* engine session held at every get_top_moves query of that request, also
\* when requests with another depth run at the same time.
C18_RecordedDepthInEffect ==
    \A w \in Workers :
        Succeeded(w) =>
            \A i \in 1..Len(response[w].analysis.positions) :
                \A j \in 1..Len(response[w].analysis.positions[i].best_moves) :
                    response[w].analysis.positions[i].best_moves[j].at
                        = response[w].analysis.depth

----------------------------------------------------------------------------
\* C19: storage changes only in a step that ends a request with 200 or with
\* the persistence failure; every other ending (any other 400 or 500) leaves
\* the stored records as they were; a request that ends with 200 adds
\* exactly one new record, under a name no stored record has; and no step
\* overwrites, updates or deletes a record stored before.
C19_StorageFrame ==
    [][ /\ storage \subseteq storage'
        /\ storage' # storage =>
            \E w \in Workers :
                /\ pc[w] = "save" /\ pc'[w] = "done"
                /\ response'[w].status = 200 \/ response'[w] = SaveFailed
        /\ \A w \in Workers :
            (pc[w] # "done" /\ pc'[w] = "done" /\ response'[w].status = 200) =>
                \E f \in storage' \ storage :
                    /\ storage' = storage \cup {f}
                    /\ f.complete
                    /\ f.data = response'[w].analysis
                    /\ \A g \in storage : g.name # f.name
      ]_vars

\* Two requests have succeeded and the records of both are in storage.
C19_Witness ==
    /\ \A w \in Workers : Succeeded(w)
    /\ \E f, g \in storage :
        /\ f.name # g.name
        /\ f.complete /\ g.complete

----------------------------------------------------------------------------
\* C20: provided every engine and storage call returns or raises, every
\* request eventually ends, with exactly one response: none while it runs,
\* and at its end 200 success, a 400, or a 500 (engine unavailable, internal
\* error, persistence failure); the loop over positions runs once per
\* expanded position, so the write starts with one entry per position.
C20_Termination ==
    /\ \A w \in Workers : (pc[w] \notin {"idle", "done"}) ~> Done(w)
    /\ [](\A w \in Workers :
            /\ pc[w] \notin {"idle", "done"} => response[w] = NoResponse
            /\ Done(w) =>
                \/ response[w].status = 200 /\ response[w].kind = "success"
                \/ response[w].status = 400
                    /\ response[w].kind \in {"missing_pgn", "bad_depth", "no_positions"}
                \/ response[w].status = 500
                    /\ response[w].kind \in {"unavailable", "internal", "save_failed"}
            /\ pc[w] \in {"set_fen", "get_top_moves"} =>
                /\ index[w] < Len(fens[w])
                /\ Len(positions[w]) = index[w]
            /\ pc[w] = "save" =>
                /\ index[w] = Len(fens[w])
                /\ Len(positions[w]) = Len(fens[w]))

\* A request is in its loop, at the second of two positions, while the
\* other request has ended.
C20_Witness ==
    \E w1, w2 \in Workers :
        /\ pc[w1] = "get_top_moves" /\ index[w1] = 1 /\ Len(fens[w1]) = 2
        /\ Done(w2) /\ response[w2].status \in {200, 400, 500}

====
